---- MODULE Spec2Model ----
(***************************************************************************)
(* A model of logistic_lda_fn (src/code/models.py): the label resolver,    *)
(* the two non-trainable statistics variables topic_counts and             *)
(* topic_dist_total, the three Estimator modes, the grouped training op,   *)
(* the author-belief iteration and two data-parallel workers.              *)
(*                                                                         *)
(* Numbers are exact rationals <<n, d>> (d > 0, lowest terms): float32     *)
(* rounding is not modelled.  The outputs of the dense layers and of the   *)
(* softmax are inputs of the model: each call draws, per item, probability *)
(* vectors for probs and probs_biased from the sets held in env.           *)
(***************************************************************************)
EXTENDS Integers, Sequences, FiniteSets, TLC

VARIABLES
  env,                      \* what the harness feeds: input domains, device, faults
  max_items_per_author,     \* params['max_items_per_author']
  topic_counts_var,         \* 'topic_counts'     [n_authors, n_topics]
  topic_dist_total_var,     \* 'topic_dist_total' [1, n_topics]
  global_step,              \* optimizer steps applied
  n_calls,                  \* calls of logistic_lda_fn run so far
  features,                 \* the batch of the last call
  mode,                     \* mode of the last call
  outcome,                  \* "none" | "ok" | "error" of the last call
  applied,                  \* members of the grouped train_op that ran in the last call
  author_ids,               \* the last call's resolved author indices
  item_topics,              \* the last call's resolved item labels (EVAL, PREDICT)
  predictions,              \* the last PREDICT call's records
  accuracy_item,            \* tf.metrics.accuracy accumulators [total, count]
  accuracy_author,
  b_phase,                  \* belief iteration: "off" | "loop"
  b_round,                  \* rounds of the belief loop done
  iterations,               \* params['author_topic_iterations']
  use_author_topics,        \* params['use_author_topics']
  author_topics,            \* resolved author labels of the batch
  author_topics_prediction, \* the estimate, one term per item
  topic_biases,             \* the bias, one term per item
  pc,                       \* per worker: "off" | "idle" | "run" | "scatter" | "done"
  w_ids,                    \* per worker: author_ids of its batch
  w_counts_diff,            \* per worker: topic_counts_diff
  w_dist_diff,              \* per worker: reduce_sum(topic_dist_diff)
  w_scatter,                \* per worker: the item scatter_add handles next
  w_assign,                 \* per worker: assign_add progress
  w_opt,                    \* per worker: optimizer progress
  w_row,                    \* per worker: the row value scatter_add has read
  w_dist                    \* per worker: the value assign_add has read

statsVars == <<topic_counts_var, topic_dist_total_var>>
callVars == <<global_step, n_calls, features, mode, outcome, applied, author_ids, item_topics,
              predictions, accuracy_item, accuracy_author>>
beliefVars == <<b_phase, b_round, iterations, use_author_topics, author_topics,
                author_topics_prediction, topic_biases>>
workerVars == <<pc, w_ids, w_counts_diff, w_dist_diff, w_scatter, w_assign, w_opt,
                w_row, w_dist>>
vars == <<env, max_items_per_author, statsVars, callVars, beliefVars, workerVars>>

(***************************************************************************)
(* Bounds of the model.                                                    *)
(***************************************************************************)
MaxBatch == 3
MaxCalls == 2
MaxItems == 2
MaxRounds == 3

(***************************************************************************)
(* Exact arithmetic standing for the float32 tensors.                      *)
(***************************************************************************)
Abs(n) == IF n < 0 THEN -n ELSE n

RECURSIVE GCD(_, _)
GCD(a, b) == IF b = 0 THEN a ELSE GCD(b, a % b)

Rat(n, d) ==
  LET s == IF d < 0 THEN -1 ELSE 1
      g == GCD(Abs(n), Abs(d))
  IN  IF n = 0 THEN <<0, 1>> ELSE <<(s * n) \div g, (s * d) \div g>>

RInt(n) == <<n, 1>>
RAdd(x, y) == Rat(x[1] * y[2] + y[1] * x[2], x[2] * y[2])
RSub(x, y) == Rat(x[1] * y[2] - y[1] * x[2], x[2] * y[2])
RMul(x, y) == Rat(x[1] * y[1], x[2] * y[2])
RDivInt(x, n) == Rat(x[1], x[2] * n)
RLeq(x, y) == x[1] * y[2] <= y[1] * x[2]
RLess(x, y) == x[1] * y[2] < y[1] * x[2]

(***************************************************************************)
(* Configuration: params['meta_info'].                                     *)
(***************************************************************************)
topics == <<"a", "b">>
meta_author_ids == <<7, 9>>
n_topics == Len(topics)
n_authors == Len(meta_author_ids)
Topics == 0 .. (n_topics - 1)
Authors == 0 .. (n_authors - 1)

\* tensors of shape [K]
VAdd(u, v) == [k \in Topics |-> RAdd(u[k], v[k])]
VSub(u, v) == [k \in Topics |-> RSub(u[k], v[k])]
VDivInt(u, n) == [k \in Topics |-> RDivInt(u[k], n)]
VScale(n, u) == [k \in Topics |-> RMul(RInt(n), u[k])]
VZeros == [k \in Topics |-> RInt(0)]
VOnes == [k \in Topics |-> RInt(1)]
VUniform == [k \in Topics |-> Rat(1, n_topics)]
VOneHot(j) == [k \in Topics |-> IF k = j THEN RInt(1) ELSE RInt(0)]

RECURSIVE VSumUpTo(_, _)
VSumUpTo(u, k) == IF k < 0 THEN RInt(0) ELSE RAdd(u[k], VSumUpTo(u, k - 1))
VSum(u) == VSumUpTo(u, n_topics - 1)

\* tf.argmax over the topic axis: the lowest index among the maxima
ArgMax(u) ==
  CHOOSE k \in Topics :
    /\ \A j \in Topics : RLeq(u[j], u[k])
    /\ \A j \in Topics : j < k => RLess(u[j], u[k])

(***************************************************************************)
(* Label resolver.                                                         *)
(***************************************************************************)
\* np.arange(len(keys))
Arange(n) == [i \in 1 .. n |-> i - 1]

\* create_table(keys, values).lookup(key): a HashTable whose default value is -1
Lookup(keys, values, key) ==
  IF \E i \in 1 .. Len(keys) : keys[i] = key
  THEN values[CHOOSE i \in 1 .. Len(keys) : keys[i] = key]
  ELSE -1

\* topic_table: the topics map to their indices and '' to -1
TopicLookup(label) == Lookup(topics \o <<"">>, Arange(n_topics) \o <<-1>>, label)

\* author_table: the author IDs map to low integers
AuthorLookup(id) == Lookup(meta_author_ids, Arange(n_authors), id)

(***************************************************************************)
(* Batches.  env.items is the data set: an item carries its features and,  *)
(* standing for the network, its two softmax outputs.                      *)
(***************************************************************************)
Item(author_id, author_topic, item_topic, probs, probs_biased) ==
  [author_id |-> author_id, author_topic |-> author_topic, item_topic |-> item_topic,
   probs |-> probs, probs_biased |-> probs_biased]

Batches == UNION {[1 .. n -> env.items] : n \in env.sizes}

Col(batch, f) == [i \in 1 .. Len(batch) |-> batch[i][f]]
ResolveAuthors(batch) == [i \in 1 .. Len(batch) |-> AuthorLookup(batch[i].author_id)]
ResolveItemTopics(batch) == [i \in 1 .. Len(batch) |-> TopicLookup(batch[i].item_topic)]
ResolveAuthorTopics(batch) ==
  [i \in 1 .. Len(batch) |-> TopicLookup(batch[i].author_topic)]

(***************************************************************************)
(* The statistics store.                                                   *)
(***************************************************************************)
\* tf.gather raises on an index out of range on CPU and yields a zero row on GPU
GatherOk(ids) == env.device = "GPU" \/ \A i \in 1 .. Len(ids) : ids[i] \in Authors
Gather(var, ids) ==
  [i \in 1 .. Len(ids) |-> IF ids[i] \in Authors THEN var[ids[i]] ELSE VZeros]

\* a variant that leaves out the division by max_items_per_author
TopicCountsDiffNoWindow(probs_biased, topic_counts, m) ==
  [i \in 1 .. Len(probs_biased) |-> VSub(probs_biased[i], topic_counts[i])]

\* a variant that divides the whole difference by max_items_per_author
TopicCountsDiffAverage(probs_biased, topic_counts, m) ==
  [i \in 1 .. Len(probs_biased) |-> VDivInt(VSub(probs_biased[i], topic_counts[i]), m)]

\* topic_counts_diff = probs_biased - topic_counts / max_items_per_author
TopicCountsDiff(probs_biased, topic_counts, m) ==
  [i \in 1 .. Len(probs_biased) |-> VSub(probs_biased[i], VDivInt(topic_counts[i], m))]

\* tf.scatter_add: every item's row is added into its author's row; an index out
\* of range is skipped (GPU; on CPU the gather has failed before)
RECURSIVE ScatterAddUpTo(_, _, _, _)
ScatterAddUpTo(var, ids, diff, n) ==
  IF n = 0 THEN var
  ELSE LET v == ScatterAddUpTo(var, ids, diff, n - 1)
       IN  IF ids[n] \in Authors
           THEN [v EXCEPT ![ids[n]] = VAdd(@, diff[n])]
           ELSE v
ScatterAdd(var, ids, diff) == ScatterAddUpTo(var, ids, diff, Len(ids))

\* a variant that leaves out the factor n_authors
TopicDistDiffNoAuthors(probs, dist, m) ==
  [i \in 1 .. Len(probs) |-> VDivInt(VSub(probs[i], dist), m)]

\* a variant that averages over the batch
TopicDistDiffMean(probs, dist, m) ==
  [i \in 1 .. Len(probs) |-> VDivInt(VSub(probs[i], dist), m * n_authors * Len(probs))]

\* topic_dist_diff = (probs - topic_dist_total) / (max_items_per_author * n_authors)
TopicDistDiff(probs, dist, m) ==
  [i \in 1 .. Len(probs) |-> VDivInt(VSub(probs[i], dist), m * n_authors)]

\* tf.reduce_sum(., axis=0)
RECURSIVE ReduceSumUpTo(_, _)
ReduceSumUpTo(rows, n) ==
  IF n = 0 THEN VZeros ELSE VAdd(ReduceSumUpTo(rows, n - 1), rows[n])
ReduceSum(rows) == ReduceSumUpTo(rows, Len(rows))

\* tf.assign_add
AssignAdd(var, delta) == VAdd(var, delta)

\* the new topic_counts of one batch
CountsCommit(var, ids, probs_biased, m) ==
  ScatterAdd(var, ids, TopicCountsDiff(probs_biased, Gather(var, ids), m))

\* the new topic_dist_total of one batch
UsageCommit(dist, probs, m) == AssignAdd(dist, ReduceSum(TopicDistDiff(probs, dist, m)))

(***************************************************************************)
(* Initial states: the variables as their initializers leave them.         *)
(***************************************************************************)
Workers == {1, 2}

InitStats ==
  /\ topic_counts_var = [a \in Authors |-> VOnes]
  /\ topic_dist_total_var = VUniform

InitCalls ==
  /\ global_step = 0
  /\ n_calls = 0
  /\ features = <<>>
  /\ mode = "none"
  /\ outcome = "none"
  /\ applied = {}
  /\ author_ids = <<>>
  /\ item_topics = <<>>
  /\ predictions = <<>>
  /\ accuracy_item = [total |-> 0, count |-> 0]
  /\ accuracy_author = [total |-> 0, count |-> 0]

InitBeliefOff ==
  /\ b_phase = "off"
  /\ b_round = 0
  /\ iterations = 1
  /\ use_author_topics = FALSE
  /\ author_topics = <<>>
  /\ author_topics_prediction = <<>>
  /\ topic_biases = <<>>

InitWorkersOff ==
  /\ pc = [w \in Workers |-> "off"]
  /\ w_ids = [w \in Workers |-> <<>>]
  /\ w_counts_diff = [w \in Workers |-> <<>>]
  /\ w_dist_diff = [w \in Workers |-> VZeros]
  /\ w_scatter = [w \in Workers |-> 0]
  /\ w_assign = [w \in Workers |-> "todo"]
  /\ w_opt = [w \in Workers |-> "todo"]
  /\ w_row = [w \in Workers |-> VZeros]
  /\ w_dist = [w \in Workers |-> VZeros]

Modes == {"TRAIN", "EVAL", "PREDICT"}

\* softmax outputs: the corners of the simplex and its centre
ProbVectors == {VOneHot(k) : k \in Topics} \cup {VUniform}

\* what the harness presents to the calls: the data set, the batch sizes, the
\* modes it runs, the device of the variables, whether the optimizer can fail
Env(items, sizes, modes, devices, faults) ==
  [items : {items}, sizes : {sizes}, modes : {modes}, device : devices,
   faults : {faults}]

InitModel ==
  /\ max_items_per_author \in 1 .. MaxItems
  /\ InitStats /\ InitCalls /\ InitBeliefOff /\ InitWorkersOff

\* author ids in and out of the vocabulary, on either device, with an optimizer
\* that can fail
Init ==
  /\ env \in Env({Item(7, "a", "a", VOneHot(0), VOneHot(1)),
                  Item(99, "a", "a", VOneHot(0), VOneHot(1))},
                 1 .. MaxBatch, Modes, {"CPU", "GPU"}, TRUE)
  /\ InitModel

\* labelled and unlabelled items, right and wrong predictions, training between
InitEval ==
  /\ env \in Env({Item(7, "a", "a", VOneHot(0), VOneHot(0)),
                  Item(7, "a", "a", VOneHot(0), VOneHot(1)),
                  Item(7, "a", "", VOneHot(0), VOneHot(0))},
                 1 .. MaxBatch, Modes, {"CPU"}, FALSE)
  /\ InitModel

\* a training job; one-hot and uniform unbiased outputs
InitUsage ==
  /\ env \in Env({Item(7, "a", "a", VOneHot(0), VUniform),
                  Item(7, "a", "a", VUniform, VUniform)},
                 1 .. MaxBatch, {"TRAIN"}, {"CPU"}, FALSE)
  /\ InitModel

\* a training job; two authors, one-hot and uniform biased outputs
InitCounts ==
  /\ env \in Env({Item(7, "a", "a", VUniform, VOneHot(0)),
                  Item(9, "a", "a", VUniform, VUniform)},
                 1 .. MaxBatch, {"TRAIN"}, {"CPU"}, FALSE)
  /\ InitModel

\* training, evaluation and prediction in any order
InitModes ==
  /\ env \in Env({Item(7, "a", "a", VOneHot(0), VOneHot(1))},
                 1 .. MaxBatch, Modes, {"CPU"}, FALSE)
  /\ InitModel

(***************************************************************************)
(* One call of logistic_lda_fn, run by the Estimator on one batch.         *)
(***************************************************************************)
GroupOps == {"optimizer", "topic_counts", "topic_dist_total"}

\* a variant in which only PREDICT returns before the update ops
UpdatesRunNoEvalReturn(m) == m # "PREDICT"

\* PREDICT and EVAL return before the update ops are built
UpdatesRun(m) == m = "TRAIN"

\* How a call can end, and which of the update ops, once built, run to the end.
\* tf.group orders none of its three members: when a member fails, any of the
\* others that does not depend on it may have run.  The optimizer and the
\* scatter_add depend on the gather; the assign_add does not.
CallOutcomes(m, ids) ==
  IF ~GatherOk(ids)
  THEN {<<"error", ran>> : ran \in SUBSET {"topic_dist_total"}}
  ELSE {<<"ok", GroupOps>>}
       \cup (IF env.faults /\ m = "TRAIN"
             THEN {<<"error", ran>> : ran \in SUBSET {"topic_counts", "topic_dist_total"}}
             ELSE {})

NewCounts(m, ran, batch) ==
  IF UpdatesRun(m) /\ "topic_counts" \in ran
  THEN CountsCommit(topic_counts_var, ResolveAuthors(batch), Col(batch, "probs_biased"),
                    max_items_per_author)
  ELSE topic_counts_var

NewDist(m, ran, batch) ==
  IF UpdatesRun(m) /\ "topic_dist_total" \in ran
  THEN UsageCommit(topic_dist_total_var, Col(batch, "probs"), max_items_per_author)
  ELSE topic_dist_total_var

\* tf.metrics.accuracy without weights: every element counts
MetricsAccuracy(acc, labels, preds) ==
  [total |-> acc.total + Cardinality({i \in 1 .. Len(labels) : labels[i] = preds[i]}),
   count |-> acc.count + Len(labels)]

ItemPrediction(batch) == [i \in 1 .. Len(batch) |-> ArgMax(batch[i].probs_biased)]
AuthorCountPrediction(ids) ==
  LET rows == Gather(topic_counts_var, ids)
  IN  [i \in 1 .. Len(ids) |-> ArgMax(rows[i])]

PredictionRecords(batch) ==
  [i \in 1 .. Len(batch) |->
     [item_prediction |-> ArgMax(batch[i].probs_biased),
      item_topic |-> TopicLookup(batch[i].item_topic),
      author_id |-> AuthorLookup(batch[i].author_id),
      author_topic |-> TopicLookup(batch[i].author_topic)]]

Call(m, batch, res) ==
  LET ids == ResolveAuthors(batch)
      ok == res[1] = "ok"
  IN  /\ n_calls < MaxCalls
      /\ n_calls' = n_calls + 1
      /\ features' = batch
      /\ mode' = m
      /\ outcome' = res[1]
      /\ applied' = IF UpdatesRun(m) THEN res[2] ELSE {}
      /\ author_ids' = ids
      /\ topic_counts_var' = NewCounts(m, res[2], batch)
      /\ topic_dist_total_var' = NewDist(m, res[2], batch)
      /\ global_step' =
           IF UpdatesRun(m) /\ "optimizer" \in res[2] THEN global_step + 1
           ELSE global_step
      /\ item_topics' = IF m = "TRAIN" THEN <<>> ELSE ResolveItemTopics(batch)
      /\ predictions' = IF m = "PREDICT" /\ ok THEN PredictionRecords(batch) ELSE <<>>
      /\ accuracy_item' =
           IF m = "EVAL" /\ ok
           THEN MetricsAccuracy(accuracy_item, ResolveItemTopics(batch),
                                ItemPrediction(batch))
           ELSE accuracy_item
      /\ accuracy_author' =
           IF m = "EVAL" /\ ok
           THEN MetricsAccuracy(accuracy_author, ResolveAuthorTopics(batch),
                                AuthorCountPrediction(ids))
           ELSE accuracy_author
      /\ UNCHANGED <<env, max_items_per_author, beliefVars, workerVars>>

Next ==
  \E m \in env.modes : \E batch \in Batches :
    \E res \in CallOutcomes(m, ResolveAuthors(batch)) : Call(m, batch, res)

(***************************************************************************)
(* The belief iteration, one round per step.  digamma and softmax are kept *)
(* as terms: a term is the sequence of the names of the functions applied, *)
(* outermost first, down to the constant they are applied to; alpha, the   *)
(* gathered counts and author_topic_weight are the same in every round.    *)
(***************************************************************************)
UniformTerm == <<"ones/n_topics">>

\* tf.one_hot: a row of zeros for an index outside [0, depth)
OneHotTerm(k) == IF k \in Topics THEN <<"one_hot", topics[k + 1]>> ELSE <<"zeros">>

\* tf.digamma(alpha + topic_counts + author_topic_weight * estimate)
DigammaTerm(estimate) == <<"digamma">> \o estimate

\* tf.nn.softmax(author_topic_weight * topic_biases)
SoftmaxTerm(bias) == <<"softmax">> \o bias

\* a variant with the two branches exchanged
TfWhereSwapped(cond, x, y) == [i \in 1 .. Len(cond) |-> IF cond[i] THEN y[i] ELSE x[i]]

\* tf.where(cond, x, y), row by row
TfWhere(cond, x, y) == [i \in 1 .. Len(cond) |-> IF cond[i] THEN x[i] ELSE y[i]]

AuthorLabels == {"a", "b", ""}

InitBelief ==
  /\ env \in Env({Item(7, "a", "a", VUniform, VUniform)}, {1}, {"TRAIN"}, {"CPU"}, FALSE)
  /\ max_items_per_author = 1
  /\ InitStats /\ InitCalls /\ InitWorkersOff
  /\ b_phase = "loop"
  /\ b_round = 0
  /\ iterations \in 1 .. MaxRounds
  /\ use_author_topics \in BOOLEAN
  /\ \E n \in 1 .. MaxBatch : \E labels \in [1 .. n -> AuthorLabels] :
       /\ author_topics = [i \in 1 .. n |-> TopicLookup(labels[i])]
       /\ author_topics_prediction = [i \in 1 .. n |-> UniformTerm]
       /\ topic_biases = [i \in 1 .. n |-> <<>>]

BeliefRound ==
  LET n == Len(author_topics)
      estimate ==
        IF use_author_topics
        THEN TfWhere([i \in 1 .. n |-> author_topics[i] < 0],
                     author_topics_prediction,
                     [i \in 1 .. n |-> OneHotTerm(author_topics[i])])
        ELSE author_topics_prediction
  IN  /\ b_phase = "loop"
      /\ b_round < iterations
      /\ b_round' = b_round + 1
      /\ topic_biases' = [i \in 1 .. n |-> DigammaTerm(estimate[i])]
      /\ author_topics_prediction' = [i \in 1 .. n |-> SoftmaxTerm(topic_biases'[i])]
      /\ UNCHANGED <<env, max_items_per_author, statsVars, callVars, workerVars,
                     b_phase, iterations, use_author_topics, author_topics>>

NextBelief == BeliefRound

(***************************************************************************)
(* Two workers of a data-parallel harness, each running one training step  *)
(* on the shared variables.  tf.scatter_add and tf.assign_add are called   *)
(* without use_locking, so each is a read of the variable followed by a    *)
(* write that other workers' steps can come between.                       *)
(***************************************************************************)
MaxWorkerBatch == 1

InitWorkers ==
  /\ env \in Env({Item(7, "a", "a", VOneHot(0), VOneHot(1)),
                  Item(7, "a", "a", VUniform, VUniform),
                  Item(9, "a", "a", VOneHot(0), VOneHot(1))},
                 1 .. MaxWorkerBatch, {"TRAIN"}, {"CPU"}, FALSE)
  /\ max_items_per_author \in 1 .. MaxItems
  /\ InitStats /\ InitCalls /\ InitBeliefOff
  /\ pc = [w \in Workers |-> "idle"]
  /\ w_ids = [w \in Workers |-> <<>>]
  /\ w_counts_diff = [w \in Workers |-> <<>>]
  /\ w_dist_diff = [w \in Workers |-> VZeros]
  /\ w_scatter = [w \in Workers |-> 0]
  /\ w_assign = [w \in Workers |-> "todo"]
  /\ w_opt = [w \in Workers |-> "todo"]
  /\ w_row = [w \in Workers |-> VZeros]
  /\ w_dist = [w \in Workers |-> VZeros]

workerFrame == <<env, max_items_per_author, n_calls, features, mode, outcome, applied,
                 author_ids, item_topics, predictions, accuracy_item, accuracy_author,
                 beliefVars>>

\* the step's reads: the lookup, the gather and the two differences
WStart(w, batch) ==
  LET ids == ResolveAuthors(batch)
  IN  /\ pc[w] = "idle"
      /\ pc' = [pc EXCEPT ![w] = "run"]
      /\ w_ids' = [w_ids EXCEPT ![w] = ids]
      /\ w_counts_diff' =
           [w_counts_diff EXCEPT
              ![w] = TopicCountsDiff(Col(batch, "probs_biased"),
                                     Gather(topic_counts_var, ids),
                                     max_items_per_author)]
      /\ w_dist_diff' =
           [w_dist_diff EXCEPT
              ![w] = ReduceSum(TopicDistDiff(Col(batch, "probs"), topic_dist_total_var,
                                             max_items_per_author))]
      /\ w_scatter' = [w_scatter EXCEPT ![w] = 1]
      /\ UNCHANGED <<statsVars, global_step, w_assign, w_opt, w_row, w_dist, workerFrame>>

\* scatter_add reads the row of its next item
WScatterRead(w) ==
  /\ pc[w] = "run"
  /\ w_scatter[w] \in 1 .. Len(w_ids[w])
  /\ w_row' = [w_row EXCEPT ![w] = topic_counts_var[w_ids[w][w_scatter[w]]]]
  /\ pc' = [pc EXCEPT ![w] = "scatter"]
  /\ UNCHANGED <<statsVars, global_step, w_ids, w_counts_diff, w_dist_diff, w_scatter,
                 w_assign, w_opt, w_dist, workerFrame>>

\* scatter_add writes the row it read plus the item's difference
WScatterWrite(w) ==
  /\ pc[w] = "scatter"
  /\ topic_counts_var' =
       [topic_counts_var EXCEPT
          ![w_ids[w][w_scatter[w]]] = VAdd(w_row[w], w_counts_diff[w][w_scatter[w]])]
  /\ w_scatter' = [w_scatter EXCEPT ![w] = @ + 1]
  /\ w_row' = [w_row EXCEPT ![w] = VZeros]
  /\ pc' = [pc EXCEPT ![w] = "run"]
  /\ UNCHANGED <<topic_dist_total_var, global_step, w_ids, w_counts_diff, w_dist_diff,
                 w_assign, w_opt, w_dist, workerFrame>>

\* assign_add reads topic_dist_total
WAssignRead(w) ==
  /\ pc[w] = "run"
  /\ w_assign[w] = "todo"
  /\ w_assign' = [w_assign EXCEPT ![w] = "read"]
  /\ w_dist' = [w_dist EXCEPT ![w] = topic_dist_total_var]
  /\ UNCHANGED <<statsVars, global_step, pc, w_ids, w_counts_diff, w_dist_diff,
                 w_scatter, w_opt, w_row, workerFrame>>

\* assign_add writes what it read plus the summed difference
WAssignWrite(w) ==
  /\ pc[w] = "run"
  /\ w_assign[w] = "read"
  /\ w_assign' = [w_assign EXCEPT ![w] = "done"]
  /\ topic_dist_total_var' = VAdd(w_dist[w], w_dist_diff[w])
  /\ w_dist' = [w_dist EXCEPT ![w] = VZeros]
  /\ UNCHANGED <<topic_counts_var, global_step, pc, w_ids, w_counts_diff, w_dist_diff,
                 w_scatter, w_opt, w_row, workerFrame>>

\* optimizer.minimize
WOptimizer(w) ==
  /\ pc[w] = "run"
  /\ w_opt[w] = "todo"
  /\ w_opt' = [w_opt EXCEPT ![w] = "done"]
  /\ global_step' = global_step + 1
  /\ UNCHANGED <<statsVars, pc, w_ids, w_counts_diff, w_dist_diff, w_scatter, w_assign,
                 w_row, w_dist, workerFrame>>

\* the grouped train_op is through
WFinish(w) ==
  /\ pc[w] = "run"
  /\ w_scatter[w] = Len(w_ids[w]) + 1
  /\ w_assign[w] = "done"
  /\ w_opt[w] = "done"
  /\ pc' = [pc EXCEPT ![w] = "done"]
  /\ UNCHANGED <<statsVars, global_step, w_ids, w_counts_diff, w_dist_diff, w_scatter,
                 w_assign, w_opt, w_row, w_dist, workerFrame>>

NextWorkers ==
  \E w \in Workers :
    \/ \E batch \in Batches : WStart(w, batch)
    \/ WScatterRead(w)
    \/ WScatterWrite(w)
    \/ WAssignRead(w)
    \/ WAssignWrite(w)
    \/ WOptimizer(w)
    \/ WFinish(w)

Spec == Init /\ [][Next]_vars
SpecEval == InitEval /\ [][Next]_vars
SpecUsage == InitUsage /\ [][Next]_vars
SpecCounts == InitCounts /\ [][Next]_vars
SpecModes == InitModes /\ [][Next]_vars
SpecBelief == InitBelief /\ [][NextBelief]_vars
SpecWorkers == InitWorkers /\ [][NextWorkers]_vars

(***************************************************************************)
(* Properties.                                                             *)
(***************************************************************************)
IsDistribution(u) ==
  /\ \A k \in Topics : RLeq(RInt(0), u[k])
  /\ VSum(u) = RInt(1)

KnownAuthors(ids) == \A i \in 1 .. Len(ids) : ids[i] \in Authors
ItemsOf(ids, a) == {i \in 1 .. Len(ids) : ids[i] = a}
Max(x, y) == IF x >= y THEN x ELSE y

\* C1: a training step is all-or-nothing: when the optimizer step of a batch
\* (of known authors) has not been applied, neither topic_counts nor
\* topic_dist_total has changed
C1_TrainAllOrNothing ==
  [][(mode' = "TRAIN" /\ KnownAuthors(author_ids') /\ global_step' = global_step)
       => UNCHANGED statsVars]_vars

\* C3 as claimed: topic_dist_total is a probability distribution in every state,
\* whatever the batch sizes
C3_UsageAlwaysDistribution == IsDistribution(topic_dist_total_var)

\* C3 as amended: topic_dist_total starts uniform, its entries always sum to 1,
\* and a training step on a batch of at most max_items_per_author * n_authors
\* items keeps it a probability distribution
C3_UsageDistributionBoundedBatch ==
  /\ [](n_calls = 0 => topic_dist_total_var = VUniform)
  /\ [](VSum(topic_dist_total_var) = RInt(1))
  /\ [][(/\ IsDistribution(topic_dist_total_var)
         /\ Len(features') <= max_items_per_author * n_authors)
          => IsDistribution(topic_dist_total_var')]_vars

C3_Witness ==
  /\ mode = "TRAIN" /\ outcome = "ok" /\ n_calls = 2
  /\ Len(features) = max_items_per_author * n_authors
  /\ topic_dist_total_var # VUniform
  /\ IsDistribution(topic_dist_total_var)

\* C4 as claimed: every entry of every topic_counts row is at least 0 and at
\* most max(K, max_items_per_author), whatever the batches
C4_RowsBounded ==
  \A a \in Authors : \A k \in Topics :
    /\ RLeq(RInt(0), topic_counts_var[a][k])
    /\ RLeq(topic_counts_var[a][k], RInt(Max(n_topics, max_items_per_author)))

\* C4 as amended: the table starts as all ones, and a training step in whose
\* batch no author has more than max_items_per_author items keeps every entry
\* between 0 and max(K, max_items_per_author)
C4_RowsBoundedWithinWindow ==
  /\ [](n_calls = 0 => topic_counts_var = [a \in Authors |-> VOnes])
  /\ [][(/\ C4_RowsBounded
         /\ \A a \in Authors :
              Cardinality(ItemsOf(author_ids', a)) <= max_items_per_author)
          => C4_RowsBounded']_vars

C4_Witness ==
  /\ mode = "TRAIN" /\ outcome = "ok" /\ n_calls = 2
  /\ max_items_per_author = 2
  /\ Cardinality(ItemsOf(author_ids, 0)) = 2
  /\ topic_counts_var[0] # VOnes
  /\ C4_RowsBounded

ConstantProbs(batch) == \A i \in 1 .. Len(batch) : batch[i].probs = batch[1].probs

\* C5 as claimed: a training step on a batch whose items all have the unbiased
\* probability vector p adds (p - usage) / (max_items_per_author * n_authors) to
\* topic_dist_total, whatever the number of items
C5_UsageCommitIsBatchMean ==
  [][(mode' = "TRAIN" /\ outcome' = "ok" /\ ConstantProbs(features'))
       => topic_dist_total_var' =
            VAdd(topic_dist_total_var,
                 VDivInt(VSub(features'[1].probs, topic_dist_total_var),
                         max_items_per_author * n_authors))]_vars

\* C5 as amended: the step adds the batch SUM: with B items of the same p it adds
\* B * (p - usage) / (max_items_per_author * n_authors), so the update grows with
\* the batch size
C5_UsageCommitIsBatchSum ==
  [][(mode' = "TRAIN" /\ outcome' = "ok" /\ ConstantProbs(features'))
       => topic_dist_total_var' =
            VAdd(topic_dist_total_var,
                 VDivInt(VScale(Len(features'),
                                VSub(features'[1].probs, topic_dist_total_var)),
                         max_items_per_author * n_authors))]_vars

C5_Witness ==
  /\ mode = "TRAIN" /\ outcome = "ok" /\ n_calls = 2
  /\ Len(features) = 2
  /\ ConstantProbs(features)
  /\ features[1].probs # VUniform
  /\ topic_dist_total_var # features[1].probs

\* the L1 distance of two rows
RECURSIVE DistUpTo(_, _, _)
DistUpTo(u, v, k) ==
  IF k < 0 THEN RInt(0)
  ELSE LET d == RSub(u[k], v[k])
       IN  RAdd(IF RLess(d, RInt(0)) THEN RSub(RInt(0), d) ELSE d, DistUpTo(u, v, k - 1))
Dist(u, v) == DistUpTo(u, v, n_topics - 1)

SingleItemCommit ==
  /\ mode' = "TRAIN" /\ outcome' = "ok" /\ Len(features') = 1
  /\ KnownAuthors(author_ids')

\* C6 as claimed: with one item of biased probability p for an author, p is the
\* fixed point of the row update, and a commit brings a row that is not p
\* strictly closer to p
C6_RowConvergesToP ==
  [][SingleItemCommit =>
       LET a == author_ids'[1]
           p == features'[1].probs_biased
       IN  /\ topic_counts_var[a] = p => topic_counts_var'[a] = p
           /\ topic_counts_var[a] # p =>
                RLess(Dist(topic_counts_var'[a], p), Dist(topic_counts_var[a], p))]_vars

\* C6 as amended: the fixed point is max_items_per_author * p, and a commit
\* multiplies the difference between the row and max_items_per_author * p by
\* 1 - 1/max_items_per_author
C6_RowConvergesToWindowTimesP ==
  [][SingleItemCommit =>
       LET a == author_ids'[1]
           m == max_items_per_author
           mp == VScale(m, features'[1].probs_biased)
       IN  /\ VScale(m, VSub(topic_counts_var'[a], mp))
                = VScale(m - 1, VSub(topic_counts_var[a], mp))
           /\ topic_counts_var[a] = mp => topic_counts_var'[a] = mp]_vars

C6_Witness ==
  /\ mode = "TRAIN" /\ outcome = "ok" /\ n_calls = 2
  /\ Len(features) = 1
  /\ max_items_per_author = 2
  /\ topic_counts_var[author_ids[1]] # VOnes
  /\ topic_counts_var[author_ids[1]] # VScale(2, features[1].probs_biased)

Labelled(labels) == {i \in 1 .. Len(labels) : labels[i] >= 0}

\* C7: an EVAL call counts only the labelled items in accuracy_item: the
\* denominator grows by the number of labelled items, the numerator by the number
\* of labelled items predicted right
C7_MissingItemLabelsExcluded ==
  [][(mode' = "EVAL" /\ outcome' = "ok") =>
       /\ accuracy_item'.count =
            accuracy_item.count + Cardinality(Labelled(item_topics'))
       /\ accuracy_item'.total =
            accuracy_item.total
              + Cardinality({i \in Labelled(item_topics') :
                               item_topics'[i] = ArgMax(features'[i].probs_biased)})]_vars

UnknownAuthor(batch) ==
  \E i \in 1 .. Len(batch) :
    \A j \in 1 .. Len(meta_author_ids) : meta_author_ids[j] # batch[i].author_id

\* C8: a call whose batch holds an author id outside the vocabulary ends in an
\* error, resolves no index for it (not even -1), emits no prediction record
\* and leaves both statistics unchanged
C8_UnknownAuthorIsFatal ==
  [][UnknownAuthor(features') =>
       /\ outcome' = "error"
       /\ \A i \in 1 .. Len(author_ids') : author_ids'[i] # -1
       /\ predictions' = <<>>
       /\ UNCHANGED statsVars]_vars

\* C9: a call in EVAL or PREDICT mode leaves topic_counts and topic_dist_total
\* unchanged
C9_OnlyTrainMutates ==
  [][mode' \in {"EVAL", "PREDICT"} => UNCHANGED statsVars]_vars

C9_Witness ==
  /\ mode \in {"EVAL", "PREDICT"} /\ outcome = "ok"
  /\ n_calls = 2
  /\ topic_counts_var # [a \in Authors |-> VOnes]
  /\ topic_dist_total_var # VUniform

RECURSIVE SumDiffsUpTo(_, _, _, _)
SumDiffsUpTo(ids, diff, a, n) ==
  IF n = 0 THEN VZeros
  ELSE VAdd(SumDiffsUpTo(ids, diff, a, n - 1), IF ids[n] = a THEN diff[n] ELSE VZeros)
SumDiffs(w, a) == SumDiffsUpTo(w_ids[w], w_counts_diff[w], a, Len(w_ids[w]))

\* C2: when both workers' steps are through, the row of an author that both
\* batches hold is the initial row plus both workers' increments, and
\* topic_dist_total is the initial vector plus both workers' increments
C2_BothCommitsLand ==
  (\A w \in Workers : pc[w] = "done") =>
    /\ \A a \in Authors :
         (\A w \in Workers : ItemsOf(w_ids[w], a) # {}) =>
           topic_counts_var[a] = VAdd(VOnes, VAdd(SumDiffs(1, a), SumDiffs(2, a)))
    /\ topic_dist_total_var = VAdd(VUniform, VAdd(w_dist_diff[1], w_dist_diff[2]))

Chain(r) ==
  [i \in 1 .. (2 * r - 1) |->
     IF i = 2 * r - 1 THEN UniformTerm[1] ELSE IF i % 2 = 1 THEN "softmax" ELSE "digamma"]

\* C10: in each round the estimate under the digamma is the one-hot label where
\* use_author_topics holds and the label is present, and the previous round's
\* estimate (uniform in the first round) everywhere else; a missing label never
\* puts a one_hot (or its all-zero row) under the digamma
C10_LabelsOverrideEstimate ==
  /\ [](b_round = 0 =>
          \A i \in 1 .. Len(author_topics) : author_topics_prediction[i] = UniformTerm)
  /\ [][b_round' = b_round + 1 =>
          \A i \in 1 .. Len(author_topics) :
            topic_biases'[i] =
              DigammaTerm(IF use_author_topics /\ author_topics[i] >= 0
                          THEN <<"one_hot", topics[author_topics[i] + 1]>>
                          ELSE author_topics_prediction[i])]_vars
  /\ [](b_round >= 1 =>
          \A i \in 1 .. Len(author_topics) :
            (~use_author_topics \/ author_topics[i] < 0) =>
              topic_biases[i] = <<"digamma">> \o Chain(b_round))

C10_Witness ==
  /\ b_round = iterations /\ iterations >= 2
  /\ use_author_topics
  /\ \E i \in 1 .. Len(author_topics) : author_topics[i] = -1
  /\ \E i \in 1 .. Len(author_topics) : author_topics[i] >= 0

====
